---- MODULE Spec2Model ----
(***************************************************************************)
(* gitlab-extra-exporter: the periodic fetch / aggregate / cache pipeline  *)
(* of lib/client (client.go, mergerequests.go, projects.go), the scrape    *)
(* handler of lib/collector and the start-up configuration of main.go.     *)
(*                                                                         *)
(* Goroutines are modelled as processes with a program counter.  Steps     *)
(* that touch no shared memory (the sequential upstream calls of one       *)
(* function) are taken together with the function that makes them; every   *)
(* access to shared memory (CachedStats, the WaitGroup, the error channel, *)
(* the captured result variables, the ticker channel) is its own step.     *)
(***************************************************************************)
EXTENDS Integers, Sequences, FiniteSets, TLC

\* ------------------------------------------------------------------ bounds
\* Longest merge-request list the upstream listing returns.
MaxMRs == 2
\* Number of ticks the ticker delivers (tick-triggered cycles that can start).
MaxTicks == 1
\* Number of projects the upstream project listing returns.
NumProjects == 2
\* Longest merge-request list PartitionSpec partitions.
MaxLen == 4
\* Longest ChangesCount the upstream reports, the literal "1000+" and "1000" apart.
MaxCountLen == 2
\* Most full pages a listing of the upstream spans in PageSpec.
MaxPages == 2
\* Last page number a listing call asks for (beyond every page of a listing of
\* MaxPages full pages and an item, and the empty page after them).
MaxPageNo == 4

\* ------------------------------------------------------------------ values
\* Lifecycle states the upstream reports; "locked" stands for any state other
\* than the three the partition knows.
MRStates == {"opened", "merged", "closed", "locked"}

\* The two goroutines startFetchData launches.
Runners == {"initial", "ticker"}

\* The three enrichment goroutines of getMergeRequestsDetails.
Tasks == {"open", "merged", "closed"}

\* Capacity of errCh: make(chan error, 1).
ErrChCap == 1

\* wg.Add(3)
WgAdd == 3

\* Capacity of ticker.C (time.NewTicker gives a channel of capacity 1).
TickChCap == 1

\* A Go pointer to a slice: nil, or a reference to a slice value.
Nil == [ptr |-> FALSE, val |-> <<>>]

Ref(s) == [ptr |-> TRUE, val |-> s]

\* All sequences over S of length at most n.
SeqsUpTo(S, n) == UNION {[1..k -> S] : k \in 0..n}

\* The merge-request listings the upstream can answer with: item i of a list has ID i.
MRLists == SeqsUpTo(MRStates, MaxMRs)

VARIABLES
    \* main.go
    flags,        \* flag name -> value, the flag set after flag.Parse
    config,       \* internal.Config as main hands it to client.New
    visited,      \* number of flags flag.VisitAll has visited
    err,          \* parseConfig's err
    mainpc,       \* position of the main goroutine
    \* client.go
    interval,     \* ExporterClient.interval (convertedTime)
    CachedStats,  \* the package variable CachedStats
    tickCh,       \* number of ticks buffered in ticker.C
    quit,         \* the channel quit of startFetchData: "none" before it is made,
                  \* then "open"; "closed" once a receive from it would succeed
    ticks,        \* ticks delivered so far
    crashed,      \* the process has died of a panic
    pc,           \* runner -> position in its goroutine
    cycle,        \* runner -> ordinal of the getData run it is in / was last in
    loc,          \* runner -> the locals of its getData call
    wg,           \* runner -> counter of the WaitGroup of its getMergeRequestsDetails call
    errCh,        \* runner -> buffer of errCh
    task,         \* runner -> task -> [pc, ret] of the enrichment goroutine
    result,       \* runner -> task -> resultOpen / resultMerged / resultClosed
    upstream,     \* the merge-request states the upstream holds (the same in every
                  \* cycle of a behaviour; which calls fail is open in every cycle)
    upstreamProjects, \* number of projects the upstream holds
    detail,       \* merge-request ID -> what the upstream answers to GetMergeRequest
    endless,      \* the listing for which the upstream answers every page number with
                  \* items ("projects", "mergeRequests"), or "none"
    lastLog,      \* what the goroutine of the last getData call to return logged
    scrape        \* what the last Collect emitted

vars == <<flags, config, visited, err, mainpc, interval, CachedStats, tickCh, ticks, crashed,
          pc, cycle, loc, wg, errCh, task, result, upstream, upstreamProjects, detail,
          lastLog, scrape, quit, endless>>

\* ------------------------------------------------------------------ main.go
\* flag.VisitAll visits the flags in lexicographical order of their names.
FlagNames == <<"gitlabAPIKey", "gitlabURI", "listenAddress", "listenPath">>

\* required := []string{"gitlabURI", "gitlabAPIKey"}
required == {"gitlabURI", "gitlabAPIKey"}

\* Values a flag can hold after flag.Parse: empty, "0", or anything else.
FlagValues == {"", "0", "v"}

\* (f.Value.String() == "" || f.Value.String() == "0")
IsEmpty(v) == v = "" \/ v = "0"

\* The value of err after the required-flags loop of one callback.
errAfterRequired(f, e) ==
    IF f \in required /\ IsEmpty(flags[f]) THEN "is empty" ELSE e

\* err = f.Value.Set(...): Set of a string flag returns nil.
errAfterDefault(f, e) ==
    IF f \in {"listenAddress", "listenPath"} /\ IsEmpty(flags[f]) THEN "nil" ELSE e

\* The value of the flag after a callback that sets the default over a given value too.
valueAfterDefaultOverGiven(f) ==
    IF f = "listenAddress" THEN "8080"
    ELSE IF f = "listenPath" THEN "/metrics"
    ELSE flags[f]

\* The value of the flag after the callback.
valueAfterDefault(f) ==
    IF f = "listenAddress" /\ IsEmpty(flags[f]) THEN "8080"
    ELSE IF f = "listenPath" /\ IsEmpty(flags[f]) THEN "/metrics"
    ELSE flags[f]

\* Strings of Config.Interval, as sequences of characters.
Intervals == {<<>>, <<"0">>, <<"-", "1">>, <<"5">>, <<"x">>}

DigitVal == [c \in {"0", "1", "2", "3", "4", "5", "6", "7", "8", "9"} |->
               CASE c = "0" -> 0 [] c = "1" -> 1 [] c = "2" -> 2 [] c = "3" -> 3
                 [] c = "4" -> 4 [] c = "5" -> 5 [] c = "6" -> 6 [] c = "7" -> 7
                 [] c = "8" -> 8 [] c = "9" -> 9]

RECURSIVE DecimalValue(_)
DecimalValue(s) ==
    IF s = <<>> THEN 0
    ELSE 10 * DecimalValue(SubSeq(s, 1, Len(s) - 1)) + DigitVal[s[Len(s)]]

\* strconv.ParseInt(s, 10, 64) with the sign dropped as well as the error.
ParseIntUnsigned(s) ==
    LET signed == s # <<>> /\ s[1] \in {"+", "-"}
        digits == IF signed THEN Tail(s) ELSE s
    IN  IF digits = <<>> \/ \E i \in 1..Len(digits) : digits[i] \notin DOMAIN DigitVal
        THEN 0
        ELSE DecimalValue(digits)

\* strconv.ParseInt(s, 10, 64) with the error dropped: 0 on a syntax error.
ParseInt(s) ==
    LET signed == s # <<>> /\ s[1] \in {"+", "-"}
        digits == IF signed THEN Tail(s) ELSE s
    IN  IF digits = <<>> \/ \E i \in 1..Len(digits) : digits[i] \notin DOMAIN DigitVal
        THEN 0
        ELSE IF signed /\ s[1] = "-" THEN 0 - DecimalValue(digits)
        ELSE DecimalValue(digits)

\* ------------------------------------------------------------------ client.go
\* The initial CachedStats with Changes left nil.
InitStatsWithoutChanges ==
    [cycle |-> 0,
     Projects |-> Ref(<<>>), MergeRequests |-> Ref(<<>>),
     MergeRequestsOpen |-> Ref(<<>>), MergeRequestsClosed |-> Ref(<<>>),
     MergeRequestsMerged |-> Ref(<<>>), Approvals |-> Ref(<<>>), Changes |-> Nil]

\* var CachedStats *Stats = &Stats{ ... seven empty slices ... }
InitStats ==
    [cycle |-> 0,
     Projects |-> Ref(<<>>), MergeRequests |-> Ref(<<>>),
     MergeRequestsOpen |-> Ref(<<>>), MergeRequestsClosed |-> Ref(<<>>),
     MergeRequestsMerged |-> Ref(<<>>), Approvals |-> Ref(<<>>), Changes |-> Ref(<<>>)]

\* The seven collections of a Stats.
Collections == {"Projects", "MergeRequests", "MergeRequestsOpen", "MergeRequestsClosed",
                "MergeRequestsMerged", "Approvals", "Changes"}

\* The locals of a getData call before it has assigned any; page and total are the
\* locals (page, projectsTotal / mrTotal) of the listing call in progress.
NoLocals ==
    [projects |-> Nil, mrs |-> Nil, mrOpen |-> Nil, mrMerged |-> Nil, mrClosed |-> Nil,
     approvals |-> Nil, changes |-> Nil, page |-> 1, total |-> <<>>]

\* An enrichment goroutine that does not exist.
NoTask == [pc |-> "none", mergeStats |-> <<>>, ret |-> Nil]

\* func (c *ExporterClient) GetStats() (*Stats, error): return CachedStats, nil
GetStats == [stats |-> CachedStats, err |-> "nil"]

\* ListOptions{Page: page, PerPage: 100}
PerPage == 100

\* The projects and the merge requests the upstream holds, in listing order: item i
\* has ID i.
upstreamProjectList == [i \in 1..upstreamProjects |-> [ID |-> i]]
upstreamMergeRequestList ==
    [i \in 1..Len(upstream) |->
        [ID |-> i, IID |-> i, ProjectID |-> detail[i].ProjectID, State |-> upstream[i]]]

\* What the upstream answers to a list call for page p of size PerPage.
Page(listing, p) ==
    SubSeq(listing, (p - 1) * PerPage + 1,
           IF p * PerPage < Len(listing) THEN p * PerPage ELSE Len(listing))

\* What c.Projects.ListProjects and c.MergeRequests.ListMergeRequests return for a page
\* number when the call succeeds; an upstream that answers every page number with
\* items answers with the first page whatever the number.
ListProjects(page) ==
    Page(upstreamProjectList, IF endless = "projects" THEN 1 ELSE page)
ListMergeRequests(page) ==
    Page(upstreamMergeRequestList, IF endless = "mergeRequests" THEN 1 ELSE page)

\* append(projectsTotal, projects...) with the items of every page but the last lost.
appendLosing(total, items) == items

\* append(projectsTotal, projects...) / append(mrTotal, mr...)
append(total, items) == total \o items

\* The loop after the paging of getProjects: one ProjectStats for each fetched project.
projectStats(projectsTotal) ==
    [i \in 1..Len(projectsTotal) |-> [ID |-> projectsTotal[i].ID]]

\* The loop after the paging of getMergeRequest leaving out the merge requests that are
\* not opened, merged or closed.
mergeRequestStatsOfKnownStates(mrTotal) ==
    LET known == SelectSeq(mrTotal, LAMBDA mr : mr.State \in {"opened", "merged", "closed"})
    IN  [i \in 1..Len(known) |->
            [ID |-> known[i].ID, InternalID |-> known[i].IID,
             ProjectID |-> known[i].ProjectID, State |-> known[i].State]]

\* The loop after the paging of getMergeRequest: one MergeRequestStats for each
\* fetched merge request.
mergeRequestStats(mrTotal) ==
    [i \in 1..Len(mrTotal) |->
        [ID |-> mrTotal[i].ID, InternalID |-> mrTotal[i].IID,
         ProjectID |-> mrTotal[i].ProjectID, State |-> mrTotal[i].State]]

\* getProjects, all pages fetched: one ProjectStats for each upstream project.
getProjects == projectStats(upstreamProjectList)

\* getMergeRequest, all pages fetched: one MergeRequestStats for each listed item.
getMergeRequest == mergeRequestStats(upstreamMergeRequestList)

\* partition with the closed case appending to mrMerged.
RECURSIVE partitionClosedAsMerged(_)
partitionClosedAsMerged(mrs) ==
    IF mrs = <<>> THEN [open |-> <<>>, merged |-> <<>>, closed |-> <<>>]
    ELSE LET p  == partitionClosedAsMerged(SubSeq(mrs, 1, Len(mrs) - 1))
             mr == mrs[Len(mrs)]
         IN  CASE mr.State = "opened" -> [p EXCEPT !.open = Append(@, mr)]
               [] mr.State = "merged" -> [p EXCEPT !.merged = Append(@, mr)]
               [] mr.State = "closed" -> [p EXCEPT !.merged = Append(@, mr)]
               [] OTHER -> p

\* The loop of getMergeRequestsDetails that sorts mrs into mrOpen, mrMerged, mrClosed.
RECURSIVE partition(_)
partition(mrs) ==
    IF mrs = <<>> THEN [open |-> <<>>, merged |-> <<>>, closed |-> <<>>]
    ELSE LET p  == partition(SubSeq(mrs, 1, Len(mrs) - 1))
             mr == mrs[Len(mrs)]
         IN  CASE mr.State = "opened" -> [p EXCEPT !.open = Append(@, mr)]
               [] mr.State = "merged" -> [p EXCEPT !.merged = Append(@, mr)]
               [] mr.State = "closed" -> [p EXCEPT !.closed = Append(@, mr)]
               [] OTHER -> p

\* A time.Time is counted in whole hours since the zero Time (January 1, year 1), and
\* a time.Duration in hours.  The zero value of time.Time:
ZeroTime == 0

\* The largest Duration, 1<<63 - 1 nanoseconds (2562047h47m16.854775807s), counted as
\* the next whole hour; differences of whole hours up to 2562047 are exact.
MaxDuration == 2562048

\* The smallest Duration, -1<<63 nanoseconds: one further from zero than the largest.
MinDuration == (0 - MaxDuration) - 1

\* t.Sub(u): the difference, or the largest / smallest Duration when it is out of range.
Sub(t, u) ==
    IF t - u >= MaxDuration THEN MaxDuration
    ELSE IF t - u <= 0 - MaxDuration THEN MinDuration
    ELSE t - u

\* d.String(): a sign and the digits of the magnitude.
DurationString(d) == [neg |-> d < 0, mag |-> IF d < 0 THEN 0 - d ELSE d]

\* time.ParseDuration of Go 1.15 (the toolchain the build workflow sets up), the error
\* dropped: the magnitude is summed in an int64, and a sum over 1<<63 - 1 is an
\* overflow error with the result 0.
ParseDuration(s) ==
    IF s.mag > MaxDuration THEN 0
    ELSE IF s.neg THEN 0 - s.mag
    ELSE s.mag

\* The detail the upstream usually holds for merge request i in the given state: created
\* on January 1, 2020, updated a day later, merged or closed then if that is its state.
\* With it, what the upstream answers about the merge request to GetConfiguration
\* (ApprovalsLeft) and to Compare (the "\n+" and "\n-" its diffs hold).
usualDetail(i, state) ==
    [ID |-> i, IID |-> i, ProjectID |-> 1,
     CreatedAt |-> Ref(17698176), UpdatedAt |-> Ref(17698200),
     MergedAt |-> IF state = "merged" THEN Ref(17698200) ELSE Nil,
     ClosedAt |-> IF state = "closed" THEN Ref(17698200) ELSE Nil,
     MergeError |-> "", ChangesCount |-> <<"1">>, Assignees |-> 0,
     ApprovalsLeft |-> 1, Additions |-> 1, Deletions |-> 0]

\* The usual details of a listing.
usualDetails(states) == [i \in 1..Len(states) |-> usualDetail(i, states[i])]

\* The outcome timestamp a task reads from a detail: result.MergedAt / result.ClosedAt.
outcomeAt(t, d) == IF t = "merged" THEN d.MergedAt ELSE d.ClosedAt

\* Whether a task skips the fetched detail: result.MergeError != "" in the merged and
\* the closed task.
skipped(t, d) == t # "open" /\ d.MergeError # ""

\* Whether handling the fetched detail dereferences a nil pointer:
\* result.MergedAt.Sub(*result.CreatedAt), result.ClosedAt.Sub(*result.CreatedAt).
detailPanics(t, d) ==
    t # "open" /\ ~skipped(t, d) /\ (~outcomeAt(t, d).ptr \/ ~d.CreatedAt.ptr)

\* The MergeRequestStats a task builds from a fetched detail (State, TargetBranch and
\* Title are not copied; the open task alone copies InternalID).
detailStats(t, d) ==
    [ID |-> d.ID, InternalID |-> IF t = "open" THEN d.IID ELSE 0, ProjectID |-> d.ProjectID,
     State |-> "", CreatedAt |-> d.CreatedAt, LastUpdated |-> d.UpdatedAt,
     ChangeCount |-> d.ChangesCount, Assignees |-> d.Assignees]

\* duration.Seconds() of the parsed difference (in hours here, as every time is).
durationOf(t, d) ==
    ParseDuration(DurationString(Sub(outcomeAt(t, d).val, d.CreatedAt.val)))

\* The record a task appends for one fetched detail.
enriched(t, mr) ==
    LET d == detail[mr.ID]
    IN  CASE t = "open" -> detailStats(t, d)
          [] t = "merged" ->
               [MergeRequest |-> detailStats(t, d), MergedAt |-> d.MergedAt,
                Duration |-> durationOf(t, d)]
          [] t = "closed" ->
               [MergeRequest |-> detailStats(t, d), ClosedAt |-> d.ClosedAt,
                Duration |-> durationOf(t, d)]

\* The slice a task returns when every detail fetch succeeded: a record for each item
\* it does not skip, in order.
taskResult(t, mergeStats) ==
    LET kept == SelectSeq(mergeStats, LAMBDA mr : ~skipped(t, detail[mr.ID]))
    IN  [i \in 1..Len(kept) |-> enriched(t, kept[i])]

\* getApprovals, every call succeeding, with no record for the first item.
getApprovalsButFirst(mergeStats) ==
    [i \in 1..(Len(mergeStats) - 1) |->
        [ID |-> mergeStats[i + 1].ID, ProjectID |-> mergeStats[i + 1].ProjectID,
         Approvals |-> detail[mergeStats[i + 1].ID].ApprovalsLeft]]

\* getApprovals, every call succeeding: one ApprovalStats per item, in order.
getApprovals(mergeStats) ==
    [i \in 1..Len(mergeStats) |->
        [ID |-> mergeStats[i].ID, ProjectID |-> mergeStats[i].ProjectID,
         Approvals |-> detail[mergeStats[i].ID].ApprovalsLeft]]

\* getChanges, every call succeeding: one ChangeStats per item, in order.
getChanges(mergeStats) ==
    [i \in 1..Len(mergeStats) |->
        [ID |-> mergeStats[i].ID, ProjectID |-> mergeStats[i].ProjectID,
         Additions |-> detail[mergeStats[i].ID].Additions,
         Deletions |-> detail[mergeStats[i].ID].Deletions]]

\* No scrape has been made.
NoScrape == [pc |-> "idle", up |-> -1, done |-> FALSE, stats |-> Nil, samples |-> <<>>]

\* The position a runner's goroutine goes to when its getData call has returned.
afterCycle(r) == IF r = "initial" THEN "exit" ELSE "select"

\* Positions of a runner inside a getData call.
InGetData == {"getProjects", "getMergeRequest", "getMergeRequestsDetails", "wait",
              "getApprovals", "getChanges", "publish"}

\* c.getData() returns e to the goroutine of runner r: getData has logged "New data
\* retrieved." before it returns nil, the goroutine logs "Scraping failed." on an error.
Return(r, e) ==
    /\ pc' = [pc EXCEPT ![r] = afterCycle(r)]
    /\ loc' = [loc EXCEPT ![r] = NoLocals]
    /\ lastLog' = IF e = "nil" THEN "New data retrieved." ELSE "Scraping failed."

\* ------------------------------------------------------------------ initial states
\* What package initialisation and flag.Parse leave, before parseConfig visits a flag.
AtStartup ==
    /\ interval = 0
    /\ CachedStats = InitStats
    /\ tickCh = 0
    /\ quit = "none"
    /\ ticks = 0
    /\ crashed = FALSE
    /\ pc = [r \in Runners |-> "unborn"]
    /\ cycle = [r \in Runners |-> 0]
    /\ loc = [r \in Runners |-> NoLocals]
    /\ wg = [r \in Runners |-> 0]
    /\ errCh = [r \in Runners |-> <<>>]
    /\ task = [r \in Runners |-> [t \in Tasks |-> NoTask]]
    /\ result = [r \in Runners |-> [t \in Tasks |-> Nil]]
    /\ lastLog = "none"
    /\ scrape = NoScrape

\* The process as main starts it: any values of the four flags.
ConfigInit ==
    /\ AtStartup
    /\ mainpc = "parseConfig"
    /\ visited = 0
    /\ err = "nil"
    /\ flags \in [{FlagNames[i] : i \in 1..Len(FlagNames)} -> FlagValues]
    /\ config = [Interval |-> <<>>]
    /\ upstream = <<>>
    /\ upstreamProjects = 0
    /\ detail = <<>>
    /\ endless = "none"

\* ------------------------------------------------------------------ main.go actions
\* One call of the function parseConfig passes to flag.VisitAll.
VisitFlag ==
    /\ mainpc = "parseConfig"
    /\ visited < Len(FlagNames)
    /\ LET f == FlagNames[visited + 1]
       IN  /\ err' = errAfterDefault(f, errAfterRequired(f, err))
           /\ flags' = [flags EXCEPT ![f] = valueAfterDefault(f)]
    /\ visited' = visited + 1
    /\ UNCHANGED <<config, mainpc, interval, CachedStats, tickCh, ticks, crashed, pc, cycle,
                   loc, wg, errCh, task, result, upstream, upstreamProjects, detail, lastLog,
                   scrape, quit, endless>>

\* main: parseConfig returned an error; log it, print usage, os.Exit(2).
MainExit ==
    /\ mainpc = "parseConfig"
    /\ visited = Len(FlagNames)
    /\ err # "nil"
    /\ mainpc' = "exit2"
    /\ UNCHANGED <<flags, config, visited, err, interval, CachedStats, tickCh, ticks, crashed,
                   pc, cycle, loc, wg, errCh, task, result, upstream, upstreamProjects, detail,
                   lastLog, scrape, quit, endless>>

\* main: parseConfig returned nil; go on to client.New(config).
MainProceed ==
    /\ mainpc = "parseConfig"
    /\ visited = Len(FlagNames)
    /\ err = "nil"
    /\ mainpc' = "New"
    /\ UNCHANGED <<flags, config, visited, err, interval, CachedStats, tickCh, ticks, crashed,
                   pc, cycle, loc, wg, errCh, task, result, upstream, upstreamProjects, detail,
                   lastLog, scrape, quit, endless>>

ConfigNext == VisitFlag \/ MainExit \/ MainProceed

ConfigSpec == ConfigInit /\ [][ConfigNext]_vars

\* ------------------------------------------------------------------ client.go actions
\* The process when main calls client.New: parseConfig has returned nil.
Init ==
    /\ AtStartup
    /\ mainpc = "New"
    /\ visited = Len(FlagNames)
    /\ err = "nil"
    /\ flags = [f \in {FlagNames[i] : i \in 1..Len(FlagNames)} |-> "v"]
    /\ config \in [Interval : Intervals]
    /\ upstream \in MRLists
    /\ upstreamProjects = NumProjects
    /\ detail = usualDetails(upstream)
    /\ endless = "none"

\* New up to the first statement of startFetchData: parse the interval, build the
\* exporter, launch the goroutine of the initial getData call.
New ==
    /\ mainpc = "New"
    /\ ~crashed
    /\ interval' = ParseInt(config.Interval)
    /\ pc' = [pc EXCEPT !["initial"] = "getProjects"]
    /\ cycle' = [cycle EXCEPT !["initial"] = 1]
    /\ mainpc' = "NewTicker"
    /\ UNCHANGED <<flags, config, visited, err, CachedStats, tickCh, ticks, crashed, loc, wg,
                   errCh, task, result, upstream, upstreamProjects, detail, lastLog, scrape,
                   quit, endless>>

\* The rest of startFetchData and of main: time.NewTicker panics on a non-positive
\* period; otherwise quit is made, the ticker loop is launched and main goes on to
\* serve scrapes.
NewTicker ==
    /\ mainpc = "NewTicker"
    /\ ~crashed
    /\ IF interval <= 0
       THEN /\ crashed' = TRUE
            /\ UNCHANGED <<mainpc, pc, quit>>
       ELSE /\ mainpc' = "serving"
            /\ quit' = "open"
            /\ pc' = [pc EXCEPT !["ticker"] = "select"]
            /\ UNCHANGED crashed
    /\ UNCHANGED <<flags, config, visited, err, interval, CachedStats, tickCh, ticks, cycle,
                   loc, wg, errCh, task, result, upstream, upstreamProjects, detail, lastLog,
                   scrape, endless>>

\* The runtime timer sends on ticker.C until ticker.Stop(); a tick that finds the buffer
\* full is dropped.
Tick ==
    /\ mainpc = "serving"
    /\ ~crashed
    /\ pc["ticker"] # "stopped"
    /\ ticks < MaxTicks
    /\ tickCh < TickChCap
    /\ tickCh' = tickCh + 1
    /\ ticks' = ticks + 1
    /\ UNCHANGED <<flags, config, visited, err, mainpc, interval, CachedStats, crashed, pc,
                   cycle, loc, wg, errCh, task, result, upstream, upstreamProjects, detail,
                   lastLog, scrape, quit, endless>>

\* The select of the ticker loop with the quit case also taken after a failed cycle.
TickerReceiveQuittingOnFailure ==
    /\ pc["ticker"] = "select"
    /\ ~crashed
    /\ \/ /\ tickCh > 0
          /\ tickCh' = tickCh - 1
          /\ pc' = [pc EXCEPT !["ticker"] = "getProjects"]
          /\ cycle' = [cycle EXCEPT !["ticker"] = 1 + ticks]
       \/ /\ quit = "closed" \/ lastLog = "Scraping failed."
          /\ pc' = [pc EXCEPT !["ticker"] = "stopped"]
          /\ UNCHANGED <<tickCh, cycle>>
    /\ UNCHANGED <<flags, config, visited, err, mainpc, interval, CachedStats, ticks, crashed,
                   loc, wg, errCh, task, result, upstream, upstreamProjects, detail, lastLog,
                   scrape, quit, endless>>

\* The select of the ticker loop: case <-ticker.C receives a tick and calls c.getData();
\* case <-quit, which can be taken once a receive from quit succeeds, stops the ticker
\* and returns.
TickerReceive ==
    /\ pc["ticker"] = "select"
    /\ ~crashed
    /\ \/ /\ tickCh > 0
          /\ tickCh' = tickCh - 1
          /\ pc' = [pc EXCEPT !["ticker"] = "getProjects"]
          /\ cycle' = [cycle EXCEPT !["ticker"] = 1 + ticks]
       \/ /\ quit = "closed"
          /\ pc' = [pc EXCEPT !["ticker"] = "stopped"]
          /\ UNCHANGED <<tickCh, cycle>>
    /\ UNCHANGED <<flags, config, visited, err, mainpc, interval, CachedStats, ticks, crashed,
                   loc, wg, errCh, task, result, upstream, upstreamProjects, detail, lastLog,
                   scrape, quit, endless>>

\* One turn of the loop of getProjects with the loop left after the first page.
GetProjectsCapped(r) ==
    /\ pc[r] = "getProjects"
    /\ ~crashed
    /\ LET projects == ListProjects(loc[r].page)
       IN  \/ Return(r, "projects")
           \/ /\ Len(projects) # 0
              /\ loc[r].page < 2
              /\ loc' = [loc EXCEPT ![r].total = append(@, projects), ![r].page = @ + 1]
              /\ UNCHANGED <<pc, lastLog>>
           \/ /\ Len(projects) = 0 \/ loc[r].page >= 2
              /\ loc' = [loc EXCEPT ![r].projects = Ref(projectStats(loc[r].total)),
                                     ![r].page = 1, ![r].total = <<>>]
              /\ pc' = [pc EXCEPT ![r] = "getMergeRequest"]
              /\ UNCHANGED lastLog
    /\ UNCHANGED <<flags, config, visited, err, mainpc, interval, CachedStats, tickCh, ticks,
                   crashed, cycle, wg, errCh, task, result, upstream, upstreamProjects, detail,
                   scrape, quit, endless>>

\* One turn of the loop of getProjects, called by getData: the request for page `page`
\* fails and getData returns the error; or the page has items, which are appended, and
\* page++; or it is empty and getProjects returns the ProjectStats of what it has.
GetProjects(r) ==
    /\ pc[r] = "getProjects"
    /\ ~crashed
    /\ LET projects == ListProjects(loc[r].page)
       IN  \/ Return(r, "projects")
           \/ /\ Len(projects) # 0
              /\ loc[r].page < MaxPageNo
              /\ loc' = [loc EXCEPT ![r].total = append(@, projects), ![r].page = @ + 1]
              /\ UNCHANGED <<pc, lastLog>>
           \/ /\ Len(projects) = 0
              /\ loc' = [loc EXCEPT ![r].projects = Ref(projectStats(loc[r].total)),
                                     ![r].page = 1, ![r].total = <<>>]
              /\ pc' = [pc EXCEPT ![r] = "getMergeRequest"]
              /\ UNCHANGED lastLog
    /\ UNCHANGED <<flags, config, visited, err, mainpc, interval, CachedStats, tickCh, ticks,
                   crashed, cycle, wg, errCh, task, result, upstream, upstreamProjects, detail,
                   scrape, quit, endless>>

\* One turn of the loop of getMergeRequest, called by getData: as in getProjects.
GetMergeRequest(r) ==
    /\ pc[r] = "getMergeRequest"
    /\ ~crashed
    /\ LET mr == ListMergeRequests(loc[r].page)
       IN  \/ Return(r, "mergeRequests")
           \/ /\ Len(mr) # 0
              /\ loc[r].page < MaxPageNo
              /\ loc' = [loc EXCEPT ![r].total = append(@, mr), ![r].page = @ + 1]
              /\ UNCHANGED <<pc, lastLog>>
           \/ /\ Len(mr) = 0
              /\ loc' = [loc EXCEPT ![r].mrs = Ref(mergeRequestStats(loc[r].total)),
                                     ![r].page = 1, ![r].total = <<>>]
              /\ pc' = [pc EXCEPT ![r] = "getMergeRequestsDetails"]
              /\ UNCHANGED lastLog
    /\ UNCHANGED <<flags, config, visited, err, mainpc, interval, CachedStats, tickCh, ticks,
                   crashed, cycle, wg, errCh, task, result, upstream, upstreamProjects, detail,
                   scrape, quit, endless>>

\* getMergeRequestsDetails up to wg.Wait(): partition the list, make the WaitGroup and
\* the error channel, launch the three goroutines.
GetMergeRequestsDetails(r) ==
    /\ pc[r] = "getMergeRequestsDetails"
    /\ ~crashed
    /\ LET p == partition(loc[r].mrs.val)
       IN  task' = [task EXCEPT ![r] =
                      [t \in Tasks |-> [pc |-> "run", mergeStats |-> p[t], ret |-> Nil]]]
    /\ result' = [result EXCEPT ![r] = [t \in Tasks |-> Nil]]
    /\ wg' = [wg EXCEPT ![r] = WgAdd]
    /\ errCh' = [errCh EXCEPT ![r] = <<>>]
    /\ pc' = [pc EXCEPT ![r] = "wait"]
    /\ UNCHANGED <<flags, config, visited, err, mainpc, interval, CachedStats, tickCh, ticks,
                   crashed, cycle, loc, upstream, upstreamProjects, detail, lastLog, scrape,
                   quit, endless>>

\* The body of getOpenMergeRequests / getMergedMergeRequests / getClosedMergeRequests up
\* to its first access to shared memory: the first k detail fetches succeed; handling
\* one of them panics on a nil timestamp, or all succeeded (wg.Done(), return &result),
\* or the next one fails (on to errCh <- err).
TaskRun(r, t) ==
    /\ task[r][t].pc = "run"
    /\ ~crashed
    /\ \E k \in 0..Len(task[r][t].mergeStats) :
          IF \E i \in 1..k : detailPanics(t, detail[task[r][t].mergeStats[i].ID])
          THEN /\ crashed' = TRUE
               /\ UNCHANGED <<wg, task>>
          ELSE IF k = Len(task[r][t].mergeStats)
          THEN /\ wg' = [wg EXCEPT ![r] = @ - 1]
               /\ task' = [task EXCEPT ![r][t].pc = "assign",
                                       ![r][t].ret = Ref(taskResult(t, task[r][t].mergeStats))]
               /\ UNCHANGED crashed
          ELSE /\ task' = [task EXCEPT ![r][t].pc = "send"]
               /\ UNCHANGED <<wg, crashed>>
    /\ UNCHANGED <<flags, config, visited, err, mainpc, interval, CachedStats, tickCh, ticks,
                   pc, cycle, loc, errCh, result, upstream, upstreamProjects, detail, lastLog,
                   scrape, quit, endless>>

\* errCh <- err, which blocks while the buffer is full; then return nil, which the
\* goroutine stores into its result variable (nil already: no other step can tell the
\* store from the send, and the two are one step here).
TaskSend(r, t) ==
    /\ task[r][t].pc = "send"
    /\ ~crashed
    /\ Len(errCh[r]) < ErrChCap
    /\ errCh' = [errCh EXCEPT ![r] = Append(@, t)]
    /\ task' = [task EXCEPT ![r][t].pc = "done", ![r][t].ret = Nil]
    /\ UNCHANGED <<flags, config, visited, err, mainpc, interval, CachedStats, tickCh, ticks,
                   crashed, pc, cycle, loc, wg, result, upstream, upstreamProjects, detail,
                   lastLog, scrape, quit, endless>>

\* The assignment in the goroutine: resultOpen = getOpenMergeRequests(...), and so on.
TaskAssign(r, t) ==
    /\ task[r][t].pc = "assign"
    /\ ~crashed
    /\ result' = [result EXCEPT ![r][t] = task[r][t].ret]
    /\ task' = [task EXCEPT ![r][t].pc = "done"]
    /\ UNCHANGED <<flags, config, visited, err, mainpc, interval, CachedStats, tickCh, ticks,
                   crashed, pc, cycle, loc, wg, errCh, upstream, upstreamProjects, detail,
                   lastLog, scrape, quit, endless>>

\* wg.Wait() returns when the counter is zero; close(errCh); the first buffered error
\* is returned, otherwise the three result variables are read and returned.  With the
\* return the three variables go out of reach: a goroutine that has not yet stored its
\* result has only that store, into a variable nobody reads, left to do, and is dropped.
DetailsWait(r) ==
    /\ pc[r] = "wait"
    /\ ~crashed
    /\ wg[r] = 0
    /\ IF errCh[r] # <<>>
       THEN Return(r, Head(errCh[r]))
       ELSE /\ loc' = [loc EXCEPT ![r].mrOpen = result[r]["open"],
                                  ![r].mrMerged = result[r]["merged"],
                                  ![r].mrClosed = result[r]["closed"]]
            /\ pc' = [pc EXCEPT ![r] = "getApprovals"]
            /\ UNCHANGED lastLog
    /\ task' = [task EXCEPT ![r] = [t \in Tasks |-> NoTask]]
    /\ result' = [result EXCEPT ![r] = [t \in Tasks |-> Nil]]
    /\ UNCHANGED <<flags, config, visited, err, mainpc, interval, CachedStats, tickCh, ticks,
                   crashed, cycle, wg, errCh, upstream, upstreamProjects, detail, scrape, quit,
                   endless>>

\* getData: approvals, err := getApprovals(glc, *mrOpen).  Dereferencing a nil mrOpen
\* panics; a configuration fetch may fail when there is an item to fetch.
GetApprovals(r) ==
    /\ pc[r] = "getApprovals"
    /\ ~crashed
    /\ IF ~loc[r].mrOpen.ptr
       THEN /\ crashed' = TRUE
            /\ UNCHANGED <<pc, loc, lastLog>>
       ELSE /\ \/ /\ loc' = [loc EXCEPT ![r].approvals = Ref(getApprovals(loc[r].mrOpen.val))]
                  /\ pc' = [pc EXCEPT ![r] = "getChanges"]
                  /\ UNCHANGED lastLog
               \/ /\ loc[r].mrOpen.val # <<>>
                  /\ Return(r, "approvals")
            /\ UNCHANGED crashed
    /\ UNCHANGED <<flags, config, visited, err, mainpc, interval, CachedStats, tickCh, ticks,
                   cycle, wg, errCh, task, result, upstream, upstreamProjects, detail, scrape,
                   quit, endless>>

\* GetChanges storing what the run has gathered before it returns the error.
GetChangesStoringOnError(r) ==
    /\ pc[r] = "getChanges"
    /\ ~crashed
    /\ \/ /\ loc' = [loc EXCEPT ![r].changes = Ref(getChanges(loc[r].mrOpen.val))]
          /\ pc' = [pc EXCEPT ![r] = "publish"]
          /\ UNCHANGED <<lastLog, CachedStats>>
       \/ /\ loc[r].mrOpen.val # <<>>
          /\ CachedStats' = [CachedStats EXCEPT !.Projects = loc[r].projects,
                                                !.MergeRequests = loc[r].mrs]
          /\ Return(r, "changes")
    /\ UNCHANGED <<flags, config, visited, err, mainpc, interval, tickCh, ticks, crashed, cycle,
                   wg, errCh, task, result, upstream, upstreamProjects, detail, scrape, quit,
                   endless>>

\* getData: changes, err := getChanges(glc, *mrOpen); a compare call may fail when
\* there is an item to compare.
GetChanges(r) ==
    /\ pc[r] = "getChanges"
    /\ ~crashed
    /\ \/ /\ loc' = [loc EXCEPT ![r].changes = Ref(getChanges(loc[r].mrOpen.val))]
          /\ pc' = [pc EXCEPT ![r] = "publish"]
          /\ UNCHANGED lastLog
       \/ /\ loc[r].mrOpen.val # <<>>
          /\ Return(r, "changes")
    /\ UNCHANGED <<flags, config, visited, err, mainpc, interval, CachedStats, tickCh, ticks,
                   crashed, cycle, wg, errCh, task, result, upstream, upstreamProjects, detail,
                   scrape, quit, endless>>

\* The Stats getData builds from its locals.
NewStats(r) ==
    [cycle |-> cycle[r],
     Projects |-> loc[r].projects, MergeRequests |-> loc[r].mrs,
     MergeRequestsOpen |-> loc[r].mrOpen, MergeRequestsClosed |-> loc[r].mrClosed,
     MergeRequestsMerged |-> loc[r].mrMerged, Approvals |-> loc[r].approvals,
     Changes |-> loc[r].changes]

\* getData: CachedStats = &Stats{...}; return nil.
Publish(r) ==
    /\ pc[r] = "publish"
    /\ ~crashed
    /\ CachedStats' = NewStats(r)
    /\ Return(r, "nil")
    /\ UNCHANGED <<flags, config, visited, err, mainpc, interval, tickCh, ticks, crashed, cycle,
                   wg, errCh, task, result, upstream, upstreamProjects, detail, scrape, quit,
                   endless>>

\* ------------------------------------------------------------------ collector.go
\* The value of the up gauge Collect sends for what GetStats returned.
upGauge(got) == IF got.err # "nil" THEN 0 ELSE 1

\* One sample sent on ch: prometheus.MustNewConstMetric(desc, GaugeValue, value, labels...).
Sample(name, id, projectID, value) ==
    [name |-> name, id |-> id, project |-> projectID, value |-> value]

\* The sequences of a sequence, one after the other: what a helper sends is the samples
\* of the items of a collection, item by item.
RECURSIVE Flatten(_)
Flatten(seqs) ==
    IF seqs = <<>> THEN <<>>
    ELSE Flatten(SubSeq(seqs, 1, Len(seqs) - 1)) \o seqs[Len(seqs)]

\* Characters of a ChangeCount that strconv.ParseFloat reads as a decimal integer.
IsDecimal(s) ==
    LET digits == IF s # <<>> /\ s[1] \in {"+", "-"} THEN Tail(s) ELSE s
    IN  digits # <<>> /\ \A i \in 1..Len(digits) : digits[i] \in DOMAIN DigitVal

\* changes, _ = strconv.ParseFloat(s, 64): the value of a decimal integer, 0 on a
\* syntax error.
ParseFloat(s) ==
    IF ~IsDecimal(s) THEN 0
    ELSE IF s[1] = "-" THEN 0 - DecimalValue(Tail(s))
    ELSE IF s[1] = "+" THEN DecimalValue(Tail(s))
    ELSE DecimalValue(s)

\* changedFiles without the case of the literal "1000+".
changedFilesParsedOnly(ChangeCount) == ParseFloat(ChangeCount)

\* The value of merge_request_changed_files for a ChangeCount.
changedFiles(ChangeCount) ==
    IF ChangeCount = <<"1", "0", "0", "0", "+">> THEN 1000 ELSE ParseFloat(ChangeCount)

\* Whether the helpers dereference a nil pointer of a MergeRequestStats.
statsPanics(mr) == ~mr.CreatedAt.ptr \/ ~mr.LastUpdated.ptr

\* The first three samples of a merge request of the open, closed or merged collection;
\* merge_request_updated is the time since LastUpdated.
commonSamples(mr) ==
    << Sample("merge_request_created", mr.ID, mr.ProjectID, mr.CreatedAt.val),
       Sample("merge_request_updated", mr.ID, mr.ProjectID, [since |-> mr.LastUpdated.val]),
       Sample("merge_request_changed_files", mr.ID, mr.ProjectID,
              changedFiles(mr.ChangeCount)) >>

collectProjectInfo(stats) ==
    Flatten([i \in 1..Len(stats.Projects.val) |->
               LET project == stats.Projects.val[i]
               IN  << Sample("project_info", project.ID, 0, 1) >>])

collectMergeReqeustInfo(stats) ==
    Flatten([i \in 1..Len(stats.MergeRequests.val) |->
               LET mr == stats.MergeRequests.val[i]
               IN  << Sample("merge_request_info", mr.ID, mr.ProjectID, 1) >>])

collectOpenMergeRequestMetrics(stats) ==
    Flatten([i \in 1..Len(stats.MergeRequestsOpen.val) |->
               LET mr == stats.MergeRequestsOpen.val[i]
               IN  commonSamples(mr) \o
                   << Sample("merge_request_assignees", mr.ID, mr.ProjectID,
                             mr.Assignees) >>])

collectClosedMergeRequestMetrics(stats) ==
    Flatten([i \in 1..Len(stats.MergeRequestsClosed.val) |->
               LET mr == stats.MergeRequestsClosed.val[i]
               IN  commonSamples(mr.MergeRequest) \o
                   << Sample("merge_request_closed", mr.MergeRequest.ID,
                             mr.MergeRequest.ProjectID, mr.ClosedAt.val),
                      Sample("merge_request_assignees", mr.MergeRequest.ID,
                             mr.MergeRequest.ProjectID, mr.MergeRequest.Assignees),
                      Sample("merge_request_duration", mr.MergeRequest.ID,
                             mr.MergeRequest.ProjectID, mr.Duration) >>])

collectMergedMergeRequestMetrics(stats) ==
    Flatten([i \in 1..Len(stats.MergeRequestsMerged.val) |->
               LET mr == stats.MergeRequestsMerged.val[i]
               IN  commonSamples(mr.MergeRequest) \o
                   << Sample("merge_request_merged", mr.MergeRequest.ID,
                             mr.MergeRequest.ProjectID, mr.MergedAt.val),
                      Sample("merge_request_assignees", mr.MergeRequest.ID,
                             mr.MergeRequest.ProjectID, mr.MergeRequest.Assignees),
                      Sample("merge_request_duration", mr.MergeRequest.ID,
                             mr.MergeRequest.ProjectID, mr.Duration) >>])

collectMergeRequestApprovalMetrics(stats) ==
    Flatten([i \in 1..Len(stats.Approvals.val) |->
               LET approval == stats.Approvals.val[i]
               IN  << Sample("merge_request_approvals", approval.ID, approval.ProjectID,
                             approval.Approvals) >>])

collectMergeRequestChanges(stats) ==
    Flatten([i \in 1..Len(stats.Changes.val) |->
               LET changes == stats.Changes.val[i]
               IN  << Sample("merge_request_changes", changes.ID, changes.ProjectID,
                             [added |-> changes.Additions]),
                      Sample("merge_request_changes", changes.ID, changes.ProjectID,
                             [deleted |-> changes.Deletions]) >>])

\* Whether the seven helpers panic on stats: ranging over a nil collection, or
\* dereferencing a nil timestamp of one of its merge requests.
helpersPanic(stats) ==
    \/ \E c \in Collections : ~stats[c].ptr
    \/ \E i \in 1..Len(stats.MergeRequestsOpen.val) :
          statsPanics(stats.MergeRequestsOpen.val[i])
    \/ \E i \in 1..Len(stats.MergeRequestsClosed.val) :
          statsPanics(stats.MergeRequestsClosed.val[i].MergeRequest)
    \/ \E i \in 1..Len(stats.MergeRequestsMerged.val) :
          statsPanics(stats.MergeRequestsMerged.val[i].MergeRequest)

\* What the seven helpers send for stats, in the order Collect calls them.
helperSamples(stats) ==
    collectProjectInfo(stats) \o collectMergeReqeustInfo(stats) \o
    collectOpenMergeRequestMetrics(stats) \o collectClosedMergeRequestMetrics(stats) \o
    collectMergedMergeRequestMetrics(stats) \o collectMergeRequestApprovalMetrics(stats) \o
    collectMergeRequestChanges(stats)

\* The collections in the order in which the helpers range over them.
HelperOrder ==
    << "Projects", "MergeRequests", "MergeRequestsOpen", "MergeRequestsClosed",
       "MergeRequestsMerged", "Approvals", "Changes" >>

\* What the helpers have sent when one of them panics: all of the helpers before it,
\* the items of its own collection before the one with the nil timestamp, and of that
\* item merge_request_created when only LastUpdated is nil.
sentBeforePanic(stats) ==
    LET record(c, x) == IF c = "MergeRequestsOpen" THEN x ELSE x.MergeRequest
        timed(c) == c \in {"MergeRequestsOpen", "MergeRequestsClosed", "MergeRequestsMerged"}
        bad(c) == IF stats[c].ptr /\ timed(c)
                  THEN {i \in 1..Len(stats[c].val) : statsPanics(record(c, stats[c].val[i]))}
                  ELSE {}
        panics(c) == ~stats[c].ptr \/ bad(c) # {}
        first == CHOOSE k \in 1..Len(HelperOrder) :
                    /\ panics(HelperOrder[k])
                    /\ \A j \in 1..(k - 1) : ~panics(HelperOrder[j])
        at == HelperOrder[first]
        item == CHOOSE i \in bad(at) : \A j \in bad(at) : i <= j
        cut == [c \in Collections |->
                  LET k == CHOOSE j \in 1..Len(HelperOrder) : HelperOrder[j] = c
                  IN  IF k < first THEN stats[c]
                      ELSE IF k = first /\ stats[c].ptr
                      THEN Ref(SubSeq(stats[c].val, 1, item - 1))
                      ELSE Ref(<<>>)]
        mr == record(at, stats[at].val[item])
    IN  helperSamples(cut) \o
        (IF stats[at].ptr /\ mr.CreatedAt.ptr
         THEN << Sample("merge_request_created", mr.ID, mr.ProjectID, mr.CreatedAt.val) >>
         ELSE <<>>)

\* Collect up to the first helper, putting the initial snapshot back into CachedStats.
CollectResettingCache ==
    /\ mainpc = "serving"
    /\ ~crashed
    /\ scrape.pc = "idle"
    /\ LET got == GetStats
       IN  scrape' = [pc |-> IF got.err = "nil" THEN "helpers" ELSE "idle",
                      up |-> upGauge(got), done |-> got.err # "nil",
                      stats |-> IF got.err = "nil" THEN Ref(got.stats) ELSE Nil,
                      samples |-> << Sample("up", 0, 0, upGauge(got)) >>]
    /\ CachedStats' = InitStats
    /\ UNCHANGED <<flags, config, visited, err, mainpc, interval, tickCh, ticks, crashed, pc,
                   cycle, loc, wg, errCh, task, result, upstream, upstreamProjects, detail,
                   lastLog, quit, endless>>

\* Collect up to the first helper: the one call of GetStats, whose result the scrape
\* keeps in its local stats, and the up gauge.
Collect ==
    /\ mainpc = "serving"
    /\ ~crashed
    /\ scrape.pc = "idle"
    /\ LET got == GetStats
       IN  scrape' = [pc |-> IF got.err = "nil" THEN "helpers" ELSE "idle",
                      up |-> upGauge(got), done |-> got.err # "nil",
                      stats |-> IF got.err = "nil" THEN Ref(got.stats) ELSE Nil,
                      samples |-> << Sample("up", 0, 0, upGauge(got)) >>]
    /\ UNCHANGED <<flags, config, visited, err, mainpc, interval, CachedStats, tickCh, ticks,
                   crashed, pc, cycle, loc, wg, errCh, task, result, upstream, upstreamProjects,
                   detail, lastLog, quit, endless>>

\* The rest of Collect with the helpers reading CachedStats anew instead of the local
\* stats.
CollectHelpersReadingCache ==
    /\ scrape.pc = "helpers"
    /\ ~crashed
    /\ IF helpersPanic(GetStats.stats)
       THEN /\ crashed' = TRUE
            /\ scrape' = [scrape EXCEPT !.pc = "panic",
                                        !.samples = @ \o sentBeforePanic(GetStats.stats)]
       ELSE /\ scrape' = [scrape EXCEPT !.pc = "idle", !.done = TRUE, !.stats = Nil,
                                        !.samples = @ \o helperSamples(GetStats.stats)]
            /\ UNCHANGED crashed
    /\ UNCHANGED <<flags, config, visited, err, mainpc, interval, CachedStats, tickCh, ticks,
                   pc, cycle, loc, wg, errCh, task, result, upstream, upstreamProjects, detail,
                   lastLog, quit, endless>>

\* The rest of Collect: the seven helpers send the samples of the local stats, and the
\* scrape is complete; a panic in a helper ends the process after what was sent before
\* it.
CollectHelpers ==
    /\ scrape.pc = "helpers"
    /\ ~crashed
    /\ IF helpersPanic(scrape.stats.val)
       THEN /\ crashed' = TRUE
            /\ scrape' = [scrape EXCEPT !.pc = "panic",
                                        !.samples = @ \o sentBeforePanic(scrape.stats.val)]
       ELSE /\ scrape' = [scrape EXCEPT !.pc = "idle", !.done = TRUE, !.stats = Nil,
                                        !.samples = @ \o helperSamples(scrape.stats.val)]
            /\ UNCHANGED crashed
    /\ UNCHANGED <<flags, config, visited, err, mainpc, interval, CachedStats, tickCh, ticks,
                   pc, cycle, loc, wg, errCh, task, result, upstream, upstreamProjects, detail,
                   lastLog, quit, endless>>

\* ------------------------------------------------------------------ the system
\* A step of the getData call of runner r or of one of its enrichment goroutines.
RunStep(r) ==
    \/ GetProjects(r)
    \/ GetMergeRequest(r)
    \/ GetMergeRequestsDetails(r)
    \/ \E t \in Tasks : TaskRun(r, t)
    \/ \E t \in Tasks : TaskSend(r, t)
    \/ \E t \in Tasks : TaskAssign(r, t)
    \/ DetailsWait(r)
    \/ GetApprovals(r)
    \/ GetChanges(r)
    \/ Publish(r)

Next ==
    \/ New
    \/ NewTicker
    \/ Tick
    \/ TickerReceive
    \/ \E r \in Runners : RunStep(r)
    \/ Collect
    \/ CollectHelpers

Spec == Init /\ [][Next]_vars

\* ------------------------------------------------------------------ the partitioning alone
\* The initial run at its call of getMergeRequestsDetails, for every listing of up to
\* MaxLen items.
PartitionInit ==
    /\ mainpc = "NewTicker"
    /\ visited = Len(FlagNames)
    /\ err = "nil"
    /\ flags = [f \in {FlagNames[i] : i \in 1..Len(FlagNames)} |-> "v"]
    /\ config = [Interval |-> <<"5">>]
    /\ interval = ParseInt(config.Interval)
    /\ upstream \in SeqsUpTo(MRStates, MaxLen)
    /\ upstreamProjects = NumProjects
    /\ detail = usualDetails(upstream)
    /\ CachedStats = InitStats
    /\ tickCh = 0
    /\ quit = "none"
    /\ endless = "none"
    /\ ticks = 0
    /\ crashed = FALSE
    /\ pc = [r \in Runners |-> IF r = "initial" THEN "getMergeRequestsDetails" ELSE "unborn"]
    /\ cycle = [r \in Runners |-> IF r = "initial" THEN 1 ELSE 0]
    /\ loc = [r \in Runners |->
                IF r = "initial"
                THEN [NoLocals EXCEPT !.projects = Ref(getProjects),
                                      !.mrs = Ref(getMergeRequest)]
                ELSE NoLocals]
    /\ wg = [r \in Runners |-> 0]
    /\ errCh = [r \in Runners |-> <<>>]
    /\ task = [r \in Runners |-> [t \in Tasks |-> NoTask]]
    /\ result = [r \in Runners |-> [t \in Tasks |-> Nil]]
    /\ lastLog = "none"
    /\ scrape = NoScrape

PartitionNext == GetMergeRequestsDetails("initial")

PartitionSpec == PartitionInit /\ [][PartitionNext]_vars

\* ------------------------------------------------------------------ one cycle and scrapes
\* The process serving scrapes, its initial run at the first statement of getData, and
\* the upstream holding the given number of projects and the merge requests the given
\* states and details describe.
Serving(projects, states, details) ==
    /\ mainpc = "serving"
    /\ visited = Len(FlagNames)
    /\ err = "nil"
    /\ flags = [f \in {FlagNames[i] : i \in 1..Len(FlagNames)} |-> "v"]
    /\ config = [Interval |-> <<"5">>]
    /\ interval = ParseInt(config.Interval)
    /\ upstream = states
    /\ upstreamProjects = projects
    /\ detail = details
    /\ endless = "none"
    /\ CachedStats = InitStats
    /\ tickCh = 0
    /\ quit = "open"
    /\ ticks = 0
    /\ crashed = FALSE
    /\ pc = [r \in Runners |-> IF r = "initial" THEN "getProjects" ELSE "select"]
    /\ cycle = [r \in Runners |-> IF r = "initial" THEN 1 ELSE 0]
    /\ loc = [r \in Runners |-> NoLocals]
    /\ wg = [r \in Runners |-> 0]
    /\ errCh = [r \in Runners |-> <<>>]
    /\ task = [r \in Runners |-> [t \in Tasks |-> NoTask]]
    /\ result = [r \in Runners |-> [t \in Tasks |-> Nil]]
    /\ lastLog = "none"
    /\ scrape = NoScrape

\* The same with NumProjects projects.
ServingWith(states, details) == Serving(NumProjects, states, details)

\* The initial cycle alone, and scrapes.
CycleNext == RunStep("initial") \/ Collect \/ CollectHelpers

\* Timestamps the upstream can hold: the zero Time, a time in the year 100, January 1
\* and 2, 2020, and a time in the year 2312.
Instants == {ZeroTime, 876000, 17698176, 17698200, 20260224}

\* The details the upstream can hold for merge request i in the given state when its
\* timestamps are any of Instants and the outcome timestamp of a merged or closed one
\* may also be null.
timedDetails(i, state) ==
    IF state \notin {"merged", "closed"} THEN {usualDetail(i, state)}
    ELSE {[usualDetail(i, state) EXCEPT
              !.CreatedAt = Ref(c),
              !.MergedAt = IF state = "merged" THEN o ELSE Nil,
              !.ClosedAt = IF state = "closed" THEN o ELSE Nil] :
            c \in Instants, o \in {Ref(t) : t \in Instants} \cup {Nil}}

\* Any listing; the first merge request has any of the timed details, the others
\* the usual ones.
DurationInit ==
    \E states \in MRLists :
       \E first \in (IF states = <<>> THEN {<<>>} ELSE timedDetails(1, states[1])) :
          ServingWith(states,
                      [i \in 1..Len(states) |->
                          IF i = 1 THEN first ELSE usualDetail(i, states[i])])

DurationSpec == DurationInit /\ [][CycleNext]_vars

\* The merge errors a detail can report: none, or one.
MergeErrors == {"", "conflict"}

\* Any listing, each merge request with the usual detail and any of the merge errors.
MergeErrorInit ==
    \E states \in MRLists : \E errors \in [1..Len(states) -> MergeErrors] :
       ServingWith(states,
                   [i \in 1..Len(states) |->
                       [usualDetail(i, states[i]) EXCEPT !.MergeError = errors[i]]])

MergeErrorSpec == MergeErrorInit /\ [][CycleNext]_vars

\* Lengths of listings around the page boundaries: a multiple of PerPage, one less, one
\* more.
ListingSizes ==
    {n \in UNION {{k * PerPage - 1, k * PerPage, k * PerPage + 1} : k \in 0..MaxPages} : n >= 0}

\* The initial run at the first statement of getData, the upstream holding listings of
\* any of these lengths.
PageInit ==
    \E projects \in ListingSizes : \E mrs \in ListingSizes :
       Serving(projects, [i \in 1..mrs |-> "opened"],
               usualDetails([i \in 1..mrs |-> "opened"]))

\* The two listing calls of the initial cycle.
PageNext == GetProjects("initial") \/ GetMergeRequest("initial")

PageSpec == PageInit /\ [][PageNext]_vars

\* The process when main calls client.New with a positive interval, and an upstream
\* that answers every page number of one of the two listings with items.
EndlessInit ==
    /\ AtStartup
    /\ mainpc = "New"
    /\ visited = Len(FlagNames)
    /\ err = "nil"
    /\ flags = [f \in {FlagNames[i] : i \in 1..Len(FlagNames)} |-> "v"]
    /\ config = [Interval |-> <<"5">>]
    /\ upstream \in MRLists \ {<<>>}
    /\ upstreamProjects = NumProjects
    /\ detail = usualDetails(upstream)
    /\ endless \in {"projects", "mergeRequests"}

\* The steps such a process can take: the listing calls of its cycles, ticks, scrapes.
EndlessNext ==
    \/ New
    \/ NewTicker
    \/ Tick
    \/ TickerReceive
    \/ \E r \in Runners : GetProjects(r)
    \/ \E r \in Runners : GetMergeRequest(r)
    \/ Collect
    \/ CollectHelpers

EndlessSpec == EndlessInit /\ [][EndlessNext]_vars

\* Characters of the changes_count the upstream reports: digits, signs, another one.
CountChars == {"0", "1", "9", "+", "-", "x"}

\* The changes_count values the upstream can report.
ChangeCounts ==
    SeqsUpTo(CountChars, MaxCountLen) \cup {<<"1", "0", "0", "0", "+">>, <<"1", "0", "0", "0">>}

\* One merge request, opened, merged or closed, with any of the changes_count values.
ChangedFilesInit ==
    \E state \in {"opened", "merged", "closed"} : \E count \in ChangeCounts :
       ServingWith(<<state>>, <<[usualDetail(1, state) EXCEPT !.ChangesCount = count]>>)

ChangedFilesSpec == ChangedFilesInit /\ [][CycleNext]_vars

\* ------------------------------------------------------------------ properties
\* The state a task looks for in the listing.
stateOf(t) == CASE t = "open" -> "opened" [] t = "merged" -> "merged" [] t = "closed" -> "closed"

\* A task of runner r has received a detail-fetch error.
TaskFailed(r, t) ==
    \/ task[r][t].pc = "send"
    \/ task[r][t].pc = "done" /\ ~task[r][t].ret.ptr

\* C1: CachedStats changes only in the step in which a getData run stores its snapshot
\* and returns nil (logging "New data retrieved."), and then all seven collections are
\* that run's locals; the step in which a run returns an error leaves CachedStats as
\* it was.
C1_CacheChangesOnlyOnSuccess ==
    [][/\ CachedStats' # CachedStats =>
            \E r \in Runners :
               /\ pc[r] = "publish"
               /\ pc'[r] = afterCycle(r)
               /\ lastLog' = "New data retrieved."
               /\ CachedStats'.cycle = cycle[r]
               /\ CachedStats'.Projects = loc[r].projects
               /\ CachedStats'.MergeRequests = loc[r].mrs
               /\ CachedStats'.MergeRequestsOpen = loc[r].mrOpen
               /\ CachedStats'.MergeRequestsClosed = loc[r].mrClosed
               /\ CachedStats'.MergeRequestsMerged = loc[r].mrMerged
               /\ CachedStats'.Approvals = loc[r].approvals
               /\ CachedStats'.Changes = loc[r].changes
       /\ \A r \in Runners :
            (pc[r] \in InGetData /\ pc'[r] = afterCycle(r) /\ lastLog' = "Scraping failed.")
               => CachedStats' = CachedStats]_vars

\* C1 witness: the second cycle (the ticker's first) has returned an error and the
\* snapshot of the first cycle is still the cached one.
C1_Witness ==
    /\ CachedStats.cycle = 1
    /\ cycle["ticker"] = 2
    /\ pc["ticker"] = "select"
    /\ lastLog = "Scraping failed."

\* C2: once a task of a run has received a detail-fetch error, the run does not come
\* to rest before getMergeRequestsDetails has returned that error and getData has
\* returned it: a run in which no step is possible any more has left getData.
C2_EnrichmentErrorIsReturned ==
    \A r \in Runners :
       ((\E t \in Tasks : TaskFailed(r, t)) /\ ~crashed /\ ~ENABLED RunStep(r))
          => pc[r] \notin InGetData

\* C3: a cycle of the ticker loop always gets on: while the loop is inside getData,
\* some step of that call or of its goroutines is possible, so that the call
\* returns and the loop waits for the next tick again.
C3_TickerCycleNeverStuck ==
    (pc["ticker"] \in InGetData /\ ~crashed) => ENABLED RunStep("ticker")

\* C4: the initial getData call and a tick-triggered one are never in progress at once.
C4_NoOverlappingCycles ==
    ~(pc["initial"] \in InGetData /\ pc["ticker"] \in InGetData)

\* C5: a published Stats has all seven collections non-nil, and its open, merged and
\* closed collections are what the three enrichment tasks of the cycle returned.
C5_PublishedStatsComplete ==
    CachedStats.cycle # 0 =>
       /\ \A c \in Collections : CachedStats[c].ptr
       /\ CachedStats.MergeRequestsOpen =
             Ref(taskResult("open", partition(getMergeRequest)["open"]))
       /\ CachedStats.MergeRequestsMerged =
             Ref(taskResult("merged", partition(getMergeRequest)["merged"]))
       /\ CachedStats.MergeRequestsClosed =
             Ref(taskResult("closed", partition(getMergeRequest)["closed"]))

\* C6: the up gauge a scrape emits is 1 exactly when the getData call that returned
\* last returned nil; it is 0 before any call has returned and after a failed one.
C6_UpIffLastCycleSucceeded ==
    [][(scrape.pc = "idle" /\ scrape' # scrape) =>
          (scrape'.up = 1 <=> lastLog = "New data retrieved.")]_vars

\* C7: a scrape made while a getData call is in progress completes, and the Stats it
\* reads is the initial one or one whose seven collections are all there and whose
\* cycle has returned.
C7_ScrapeReadsWholeSnapshot ==
    [][(scrape.pc = "helpers" /\ scrape' # scrape
           /\ \E r \in Runners : pc[r] \in InGetData) =>
          /\ scrape'.done
          /\ \/ scrape.stats.val = InitStats
             \/ /\ \A c \in Collections : scrape.stats.val[c].ptr
                /\ \A r \in Runners :
                      cycle[r] = scrape.stats.val.cycle => pc[r] \notin InGetData]_vars

\* C8: no enrichment goroutine is left blocked in its send on the error channel: while
\* a task waits to send, some step of its run is still possible.
C8_NoSenderLeftBlocked ==
    \A r \in Runners : \A t \in Tasks :
       (task[r][t].pc = "send" /\ ~crashed) => ENABLED RunStep(r)

\* C9: when gitlabURI or gitlabAPIKey is empty or "0", parseConfig returns an error
\* and main does not go on to client.New, whatever the two listen flags hold.
C9_MissingRequiredFlagExits ==
    (visited = Len(FlagNames) /\ \E f \in required : IsEmpty(flags[f]))
       => (err # "nil" /\ mainpc # "New")

\* C10: after the partitioning, each of mrOpen, mrMerged, mrClosed is the listing
\* restricted to the items of its state, in listing order; so an item of one of the
\* three states is in exactly one of them and an item of another state in none.
C10_PartitionExhaustiveDisjoint ==
    \A r \in Runners :
       pc[r] = "wait" =>
          LET mrs == loc[r].mrs.val
              occurrences(mr) ==
                 Cardinality({<<t, j>> \in Tasks \X (1..Len(mrs)) :
                                 /\ j <= Len(task[r][t].mergeStats)
                                 /\ task[r][t].mergeStats[j] = mr})
          IN  /\ \A t \in Tasks :
                    task[r][t].mergeStats =
                       SelectSeq(mrs, LAMBDA mr : mr.State = stateOf(t))
              /\ \A i \in 1..Len(mrs) :
                    occurrences(mrs[i]) =
                       IF mrs[i].State \in {"opened", "merged", "closed"} THEN 1 ELSE 0

\* C11: in a published snapshot, the Duration of a merged (closed) record is MergedAt
\* (ClosedAt) minus CreatedAt, and it is 0 when the outcome timestamp is the zero Time.
C11_DurationIsOutcomeMinusCreated ==
    LET expected(outcome, created) ==
           IF outcome.val = ZeroTime THEN 0 ELSE outcome.val - created.val
    IN  CachedStats.cycle # 0 =>
           /\ CachedStats.MergeRequestsMerged.ptr =>
                 \A i \in 1..Len(CachedStats.MergeRequestsMerged.val) :
                    LET mr == CachedStats.MergeRequestsMerged.val[i]
                    IN  mr.Duration = expected(mr.MergedAt, mr.MergeRequest.CreatedAt)
           /\ CachedStats.MergeRequestsClosed.ptr =>
                 \A i \in 1..Len(CachedStats.MergeRequestsClosed.val) :
                    LET mr == CachedStats.MergeRequestsClosed.val[i]
                    IN  mr.Duration = expected(mr.ClosedAt, mr.MergeRequest.CreatedAt)

\* C12: a merged merge request whose detail has no merge timestamp (and no merge error)
\* does not make the merged task panic, and the slice the task returns has a record
\* for it whose MergedAt is the zero Time.
C12_NullMergedAtIsZeroTime ==
    \A r \in Runners :
       \A i \in 1..Len(task[r]["merged"].mergeStats) :
          LET mr == task[r]["merged"].mergeStats[i]
              d  == detail[mr.ID]
              ret == task[r]["merged"].ret
          IN  (~d.MergedAt.ptr /\ d.MergeError = "") =>
                 /\ ~(crashed /\ task[r]["merged"].pc = "run")
                 /\ ret.ptr =>
                       \E j \in 1..Len(ret.val) :
                          /\ ret.val[j].MergeRequest.ID = mr.ID
                          /\ ret.val[j].MergedAt = Ref(ZeroTime)

C14_PagesInOrderUntilEmpty ==
    [][LET r == "initial"
           listing == IF pc[r] = "getProjects" THEN upstreamProjectList
                      ELSE upstreamMergeRequestList
           before == (loc[r].page - 1) * PerPage
           held == SubSeq(listing, 1, IF before < Len(listing) THEN before ELSE Len(listing))
           answer == Page(listing, loc[r].page)
           returned == IF pc[r] = "getProjects" THEN loc'[r].projects ELSE loc'[r].mrs
       IN  pc[r] \in {"getProjects", "getMergeRequest"} =>
              /\ loc[r].page >= 1
              /\ loc[r].total = held
              /\ \/ /\ lastLog' = "Scraping failed."
                    /\ loc'[r] = NoLocals
                    /\ pc'[r] \notin InGetData
                 \/ /\ answer # <<>>
                    /\ pc'[r] = pc[r]
                    /\ loc'[r].page = loc[r].page + 1
                    /\ UNCHANGED lastLog
                 \/ /\ answer = <<>>
                    /\ \A q \in 1..(loc[r].page - 1) : Page(listing, q) # <<>>
                    /\ pc'[r] \in InGetData \ {pc[r]}
                    /\ returned.ptr
                    /\ Len(returned.val) = Len(listing)
                    /\ \A i \in 1..Len(listing) : returned.val[i].ID = listing[i].ID
                    /\ UNCHANGED lastLog]_vars

\* C14 witness: both listing calls have returned a listing of more than one page.
C14_Witness ==
    /\ loc["initial"].projects.ptr
    /\ loc["initial"].mrs.ptr
    /\ Len(loc["initial"].projects.val) > PerPage
    /\ Len(loc["initial"].mrs.val) > PerPage

\* C15: once New has launched the initial cycle, startFetchData can go on to launch
\* the ticker loop, and a tick the ticker has delivered starts a cycle: the ticker loop
\* can receive it, or the cycle it is in can go on and return to the loop.
C15_CycleAtStartupAndEveryTick ==
    /\ mainpc # "New" => cycle["initial"] = 1
    /\ (mainpc = "NewTicker" /\ ~crashed) => ENABLED (NewTicker /\ mainpc' = "serving")
    /\ (tickCh > 0 /\ ~crashed) => ENABLED (TickerReceive \/ RunStep("ticker"))

\* C16: CachedStats starts as the initial snapshot, whose seven collections are non-nil
\* and empty, and stays it until a getData call returns nil; a scrape that reads the
\* initial snapshot gets no error, completes, and sends the up gauge and no other series.
C16_InitialSnapshotUntilFirstSuccess ==
    [][/\ mainpc = "New" => CachedStats = InitStats
       /\ CachedStats = InitStats =>
             /\ \A c \in Collections : CachedStats[c].ptr /\ CachedStats[c].val = <<>>
             /\ CachedStats' # CachedStats =>
                   /\ lastLog' = "New data retrieved."
                   /\ \E r \in Runners : pc[r] \in InGetData /\ pc'[r] \notin InGetData
             /\ (scrape.pc = "idle" /\ scrape' # scrape) =>
                   /\ scrape'.up = 1
                   /\ scrape'.pc = "helpers"
                   /\ scrape'.stats = Ref(InitStats)
       /\ (scrape.pc = "helpers" /\ scrape.stats.val = InitStats /\ scrape' # scrape) =>
             /\ ~crashed'
             /\ scrape'.done
             /\ scrape'.pc = "idle"
             /\ scrape'.samples = << Sample("up", 0, 0, 1) >>]_vars

\* C16 witness: a complete scrape that sent only the up gauge, the cache being the
\* initial snapshot after a cycle that failed.
C16_Witness ==
    /\ scrape.done
    /\ scrape.samples = << Sample("up", 0, 0, 1) >>
    /\ CachedStats = InitStats
    /\ lastLog = "Scraping failed."

\* C17: a scrape calls GetStats once, when it starts, and keeps what it got; no step of
\* a cycle changes what the scrape holds, and the series its helpers send are those of
\* the Stats it got, whatever CachedStats has become since.
C17_ScrapeReadsCacheOnce ==
    [][/\ (scrape.pc = "idle" /\ scrape' # scrape) =>
             /\ scrape'.stats = Ref(CachedStats)
             /\ scrape'.samples = << Sample("up", 0, 0, 1) >>
       /\ scrape.pc = "helpers" =>
             \/ scrape' = scrape
             \/ /\ scrape'.pc = "panic"
                /\ \E c \in Collections : ~scrape.stats.val[c].ptr
                /\ UNCHANGED CachedStats
             \/ /\ scrape'.done
                /\ scrape'.samples = scrape.samples \o helperSamples(scrape.stats.val)
                /\ UNCHANGED CachedStats]_vars

\* C17 witness: a scrape is between its GetStats call and its helpers, and CachedStats
\* has been replaced since the call by a snapshot with other series.
C17_Witness ==
    /\ scrape.pc = "helpers"
    /\ scrape.stats.val # CachedStats
    /\ ~helpersPanic(CachedStats)
    /\ ~helpersPanic(scrape.stats.val)
    /\ helperSamples(CachedStats) # helperSamples(scrape.stats.val)

C19_DefaultsOnlyForEmptyOptions ==
    [][IF visited' = visited + 1
       THEN LET f == FlagNames[visited + 1]
                empty == flags[f] \in {"", "0"}
            IN  /\ \A g \in DOMAIN flags \ {f} : flags'[g] = flags[g]
                /\ (f = "listenAddress" /\ empty) => flags'[f] = "8080"
                /\ (f = "listenPath" /\ empty) => flags'[f] = "/metrics"
                /\ (f \in {"gitlabURI", "gitlabAPIKey"} \/ ~empty) => flags'[f] = flags[f]
       ELSE UNCHANGED <<flags, visited>>]_vars

\* C19 witness: parseConfig has returned nil with both defaults set and the required
\* options as given.
C19_Witness ==
    /\ mainpc = "New"
    /\ flags["listenAddress"] = "8080"
    /\ flags["listenPath"] = "/metrics"
    /\ flags["gitlabURI"] = "v"
    /\ flags["gitlabAPIKey"] = "v"

\* C20: a getData call goes on to getApprovals only when each of its three tasks has
\* made all its fetches and returned a slice, and no error is buffered; approvals and
\* changes are set only by the getApprovals and getChanges steps, in that order, and
\* hold one record for each item of the enriched opened group, with its ID and project
\* ID, in its order; a published Stats has in Approvals and Changes one record for each
\* record of MergeRequestsOpen, in order, and none for a merged or closed merge request.
C20_ApprovalsAndChangesFollowOpened ==
    [][LET follows(records, opened) ==
              /\ records.ptr
              /\ opened.ptr
              /\ Len(records.val) = Len(opened.val)
              /\ \A i \in 1..Len(opened.val) :
                    /\ records.val[i].ID = opened.val[i].ID
                    /\ records.val[i].ProjectID = opened.val[i].ProjectID
              /\ \A i \in 1..Len(records.val) : upstream[records.val[i].ID] = "opened"
       IN  /\ \A r \in Runners :
                 /\ (pc[r] # "getApprovals" /\ pc'[r] = "getApprovals") =>
                       /\ pc[r] = "wait"
                       /\ errCh[r] = <<>>
                       /\ \A t \in Tasks :
                             /\ task[r][t].pc \in {"assign", "done"}
                             /\ task[r][t].ret.ptr
                 /\ (~loc[r].approvals.ptr /\ loc'[r].approvals.ptr) =>
                       /\ pc[r] = "getApprovals"
                       /\ ~loc[r].changes.ptr
                       /\ loc[r].mrOpen =
                             Ref(taskResult("open", partition(loc[r].mrs.val)["open"]))
                       /\ follows(loc'[r].approvals, loc[r].mrOpen)
                 /\ (~loc[r].changes.ptr /\ loc'[r].changes.ptr) =>
                       /\ pc[r] = "getChanges"
                       /\ loc[r].approvals.ptr
                       /\ follows(loc'[r].changes, loc[r].mrOpen)
           /\ CachedStats' # CachedStats =>
                 /\ follows(CachedStats'.Approvals, CachedStats'.MergeRequestsOpen)
                 /\ follows(CachedStats'.Changes, CachedStats'.MergeRequestsOpen)]_vars

\* C20 witness: a published Stats has approvals and changes, and the upstream also
\* lists a merged or closed merge request.
C20_Witness ==
    /\ CachedStats.cycle # 0
    /\ CachedStats.Approvals.ptr
    /\ CachedStats.Changes.ptr
    /\ Len(CachedStats.Approvals.val) >= 1
    /\ Len(CachedStats.Changes.val) >= 1
    /\ \E i \in 1..Len(upstream) : upstream[i] \in {"merged", "closed"}

\* C21: the merged (closed) collection of a published snapshot holds one record for each
\* listed merge request in the state merged (closed) whose detail reports no merge
\* error, in listing order, and none for one whose detail reports a merge error.
C21_MergeErrorItemsOmitted ==
    LET kept(state) ==
           SelectSeq(upstreamMergeRequestList,
                     LAMBDA mr : mr.State = state /\ detail[mr.ID].MergeError = "")
        holds(collection, state) ==
           /\ collection.ptr
           /\ Len(collection.val) = Len(kept(state))
           /\ \A i \in 1..Len(kept(state)) :
                 collection.val[i].MergeRequest.ID = kept(state)[i].ID
    IN  CachedStats.cycle # 0 =>
           /\ holds(CachedStats.MergeRequestsMerged, "merged")
           /\ holds(CachedStats.MergeRequestsClosed, "closed")

\* C22: the helpers of a scrape that has read the snapshot S complete and send, after
\* the up gauge, one project_info per project, one merge_request_info per merge
\* request, four series per open record, six per closed record, six per merged record,
\* one per approval record and two (added, then deleted) per change record, in this
\* order: 1 + |Projects| + |MergeRequests| + 4|Open| + 6|Closed| + 6|Merged| +
\* |Approvals| + 2|Changes| samples; a snapshot of a cycle has as many project_info
\* samples as the upstream has projects.
C22_SampleCountAndOrder ==
    [][(scrape.pc = "helpers" /\ scrape' # scrape) =>
          LET S == scrape.stats.val
              n(c) == Len(S[c].val)
              times(names, k) == Flatten([i \in 1..k |-> names])
              open == << "merge_request_created", "merge_request_updated",
                         "merge_request_changed_files", "merge_request_assignees" >>
              closed == << "merge_request_created", "merge_request_updated",
                           "merge_request_changed_files", "merge_request_closed",
                           "merge_request_assignees", "merge_request_duration" >>
              merged == << "merge_request_created", "merge_request_updated",
                           "merge_request_changed_files", "merge_request_merged",
                           "merge_request_assignees", "merge_request_duration" >>
              order == << "up" >> \o times(<< "project_info" >>, n("Projects")) \o
                       times(<< "merge_request_info" >>, n("MergeRequests")) \o
                       times(open, n("MergeRequestsOpen")) \o
                       times(closed, n("MergeRequestsClosed")) \o
                       times(merged, n("MergeRequestsMerged")) \o
                       times(<< "merge_request_approvals" >>, n("Approvals")) \o
                       times(<< "merge_request_changes", "merge_request_changes" >>,
                             n("Changes"))
              sent == scrape'.samples
              changesFrom == Len(sent) - 2 * n("Changes")
          IN  /\ scrape'.done
              /\ Len(sent) = 1 + n("Projects") + n("MergeRequests") +
                               4 * n("MergeRequestsOpen") + 6 * n("MergeRequestsClosed") +
                               6 * n("MergeRequestsMerged") + n("Approvals") +
                               2 * n("Changes")
              /\ [i \in 1..Len(sent) |-> sent[i].name] = order
              /\ \A k \in 1..n("Changes") :
                    /\ DOMAIN sent[changesFrom + 2 * k - 1].value = {"added"}
                    /\ DOMAIN sent[changesFrom + 2 * k].value = {"deleted"}
              /\ S.cycle # 0 =>
                    Len(SelectSeq(sent, LAMBDA x : x.name = "project_info")) =
                       upstreamProjects]_vars

\* C23: no step closes quit or sends on it, the ticker loop never takes its quit case
\* (where it would stop the ticker), and it only goes from its select into getData on a
\* tick and from getData back to its select; a getData call in progress ends only by a
\* step of its own, which no scrape and no other goroutine takes for it.
C23_LoopOnlyWaitsAndRuns ==
    [][/\ quit' = quit \/ (mainpc = "NewTicker" /\ quit = "none" /\ quit' = "open")
       /\ pc'["ticker"] # "stopped"
       /\ pc["ticker"] = "select" =>
             \/ pc'["ticker"] = "select"
             \/ pc'["ticker"] = "getProjects" /\ tickCh' = tickCh - 1
       /\ pc["ticker"] \in InGetData => pc'["ticker"] \in InGetData \cup {"select"}
       /\ \A r \in Runners :
             (pc[r] \in InGetData /\ pc'[r] \notin InGetData) =>
                /\ lastLog' \in {"New data retrieved.", "Scraping failed."}
                /\ pc[r] \in {"getProjects", "getMergeRequest", "wait", "getApprovals",
                               "getChanges", "publish"}
                /\ UNCHANGED <<scrape, tickCh, ticks, mainpc, crashed>>
                /\ \A other \in Runners \ {r} : pc'[other] = pc[other]]_vars

\* C23 witness: the ticker loop is back at its select after a tick-triggered cycle that
\* failed, a scrape has completed, and quit is as it was made.
C23_Witness ==
    /\ pc["ticker"] = "select"
    /\ cycle["ticker"] # 0
    /\ lastLog = "Scraping failed."
    /\ scrape.done
    /\ quit = "open"

\* C24: a step that replaces CachedStats puts the snapshot of a cycle that started
\* after the cycle of the snapshot it replaces (the initial snapshot counting as
\* cycle 0, the initial run as cycle 1, the run of the n-th tick as cycle 1 + n).
C24_PublishedInStartOrder ==
    [][CachedStats' # CachedStats => CachedStats'.cycle > CachedStats.cycle]_vars

\* C25: a listing call returns its result only at an empty page; with an upstream that
\* answers every page number of a listing with items, a turn of that listing's loop
\* only moves to the next page, the call ends only by a failed request (and the cycle
\* with "Scraping failed."), no cycle replaces CachedStats, and the ticker loop starts
\* no cycle while it is in one.
C25_EndlessListingNeverReturns ==
    [][LET at == IF endless = "projects" THEN "getProjects" ELSE "getMergeRequest"
       IN  /\ UNCHANGED CachedStats
           /\ CachedStats = InitStats
           /\ \A r \in Runners :
                 /\ (pc[r] = "getProjects" /\ pc'[r] = "getMergeRequest") =>
                       ListProjects(loc[r].page) = <<>>
                 /\ (pc[r] = "getMergeRequest" /\ pc'[r] = "getMergeRequestsDetails") =>
                       ListMergeRequests(loc[r].page) = <<>>
                 /\ pc[r] = at =>
                       \/ pc'[r] = at /\ loc'[r] = loc[r]
                       \/ /\ pc'[r] = at
                          /\ loc'[r].page = loc[r].page + 1
                          /\ Len(loc'[r].total) > Len(loc[r].total)
                       \/ /\ pc'[r] = afterCycle(r)
                          /\ lastLog' = "Scraping failed."
                 /\ pc[r] \in InGetData => cycle'[r] = cycle[r]]_vars

\* C25 witness: the run of a tick has asked for page after page of the listing that
\* never ends, and CachedStats is still the initial snapshot.
C25_Witness ==
    /\ endless # "none"
    /\ pc["ticker"] = (IF endless = "projects" THEN "getProjects" ELSE "getMergeRequest")
    /\ loc["ticker"].page = MaxPageNo
    /\ Len(loc["ticker"].total) >= MaxPageNo - 1
    /\ CachedStats = InitStats

C27_OtherStatesOnlyInInfo ==
    [][LET size(c) == IF c.ptr THEN Len(c.val) ELSE 0
           S == CachedStats'
           read == scrape.stats.val
           of(i) == SelectSeq(scrape'.samples,
                              LAMBDA x : x.name # "project_info" /\ x.name # "up" /\ x.id = i)
       IN  /\ S.cycle # 0 =>
                 /\ S.MergeRequests.ptr
                 /\ Len(S.MergeRequests.val) = Len(upstream)
                 /\ \A i \in 1..Len(upstream) :
                       /\ S.MergeRequests.val[i].ID = i
                       /\ S.MergeRequests.val[i].State = upstream[i]
                 /\ size(S.MergeRequestsOpen) + size(S.MergeRequestsMerged) +
                       size(S.MergeRequestsClosed) <= size(S.MergeRequests)
           /\ (scrape.pc = "helpers" /\ scrape' # scrape /\ read.cycle # 0) =>
                 \A i \in 1..Len(upstream) :
                    upstream[i] \notin {"opened", "merged", "closed"} =>
                       /\ Len(of(i)) = 1
                       /\ of(i)[1].name = "merge_request_info"]_vars

\* C27 witness: a complete scrape of a published snapshot has sent merge_request_info
\* for a listed merge request in another state, next to the series of an opened one.
C27_Witness ==
    /\ scrape.done
    /\ CachedStats.cycle # 0
    /\ \E i \in 1..Len(upstream) :
          /\ upstream[i] = "locked"
          /\ \E k \in 1..Len(scrape.samples) :
                scrape.samples[k].name = "merge_request_info" /\ scrape.samples[k].id = i
    /\ \E k \in 1..Len(scrape.samples) : scrape.samples[k].name = "merge_request_assignees"

\* C10 witness: a listing with items of all three states and of another one has been
\* partitioned.
C10_Witness ==
    /\ pc["initial"] = "wait"
    /\ {loc["initial"].mrs.val[i].State : i \in 1..Len(loc["initial"].mrs.val)} = MRStates

====
